---- MODULE Spec2Model ----
(***************************************************************************)
(* Model of imap_move.py: the module-level transfer script (lines 227-288), *)
(* cleanup() (162-182) and signal_handler() (186-192), run against two     *)
(* IMAP servers reached through imaplib.                                    *)
(*                                                                          *)
(* The client library is modelled by what imaplib does: every command is   *)
(* first checked against the client-side session state (a command that is  *)
(* illegal in that state raises without being sent), a tagged BAD answer    *)
(* raises IMAP4.error, a tagged NO answer is returned to the caller, and a  *)
(* broken connection raises IMAP4.abort.  The servers answer each command   *)
(* nondeterministically.  SIGINT is delivered between two statements.       *)
(***************************************************************************)
EXTENDS Integers, Sequences, FiniteSets, TLC

\* ------------------------------------------------------------------ bounds
MaxMsgs == 2      \* messages in the source working folder at start: 0..MaxMsgs
MaxTrash == 1     \* messages in the source trash folder at start: 0..MaxTrash
MaxSigint == 1    \* SIGINT deliveries in one run
MaxWall == 2      \* wall clock readings of an INTERNALDATE, in hours: 0..MaxWall
MaxZone == 1      \* zone offsets, in hours: -MaxZone..MaxZone
MaxBody == 2      \* length of a message literal: 0..MaxBody

Sessions == {"src", "tgt"}
NoReport == -1
NoRec == [id |-> 0, deleted |-> FALSE]

VARIABLES
    pc,           \* position of the module-level code
    installed,    \* atexit hook and SIGINT handler registered (lines 227-228)
    state,        \* imaplib's state of each mailbox object; "UNDEF": the global is not bound
    alive,        \* the connection of each session still works
    srvSel,       \* folder selected on the server for each session
    srcBox, srcDel,       \* source working folder: messages, and those carrying \Deleted
    tgtBox, tgtDel,       \* target working folder: copies (by origin), and those carrying \Deleted
    trashBox, trashDel,   \* source trash folder
    ids, idx,     \* the search snapshot (data[0].split()) and the loop position
    rec,          \* the fetched record (flags of the message being moved)
    appendResult, \* append_result[0]
    count,        \* count
    reported,     \* the count logged by '%s messages moved', NoReport before
    exitCode,     \* process exit status, -1 while running
    stack,        \* running invocations of cleanup(), innermost last
    sigCount,     \* SIGINTs delivered so far
    \* history variables (observers of the run, read by no action guard)
    initBox,      \* messages of the source working folder when the run starts
    fetchRes,     \* per identifier: "OK" or "FAIL" for its FETCH, "none" if never sent
    appendRes,    \* per identifier: the answer to its APPEND, "none" if never sent
    storeIssued,  \* identifiers of the working folder for which STORE +FLAGS \Deleted was sent
    everSelected, \* sessions that reached SELECTED at some time
    td,           \* per session: the teardown commands sent by cleanup(), in order
    lastCall,     \* the most recently ended invocation of cleanup()
    quiet,        \* a cleanup() returned normally and the script has not run since
    sigDelivered, \* a SIGINT reached the installed handler
    cmdAfterSig,  \* a FETCH, APPEND or STORE was sent after that
    abortedAt,    \* what the script was doing when an exception ended it
    refused,      \* the connect, login or working-folder select steps that were rejected
    purged,       \* what the STORE of line 287 did: "trash" (answered OK with the trash
                  \* selected), "folder" (sent with the working folder selected),
                  \* "refused" (not sent or not answered OK), "none" before
    \* one pass of the loop body in detail (lines 268-279), followed by SpecFidelity
    fpc,          \* position in the loop body, "off" when the pass is not followed
    data,         \* data[0] of the FETCH response: the header text and the literal
    zoneinfo,     \* the local time zone of the machine the script runs on
    message,      \* message
    flag_str,     \* flag_str
    date,         \* date
    wire,         \* the APPEND command imaplib sent, <<>> before
    tgtCopy       \* the message the target stored for it, <<>> if none

vars == <<pc, installed, state, alive, srvSel, srcBox, srcDel, tgtBox, tgtDel,
          trashBox, trashDel, ids, idx, rec, appendResult, count, reported,
          exitCode, stack, sigCount, initBox, fetchRes, appendRes, storeIssued,
          everSelected, td, lastCall, quiet, sigDelivered, cmdAfterSig, abortedAt,
          refused, purged, fpc, data, zoneinfo, message, flag_str, date, wire,
          tgtCopy>>

srvVars == <<srcBox, srcDel, tgtBox, tgtDel, trashBox, trashDel>>
loopVars == <<ids, idx, rec, appendResult, count, reported>>
histVars == <<fetchRes, appendRes, storeIssued>>
bodyVars == <<fpc, data, zoneinfo, message, flag_str, date, wire, tgtCopy>>

\* ------------------------------------------------------------ imaplib
\* imaplib.Commands: the client states in which a command may be sent
Commands(cmd) ==
    CASE cmd = "LOGIN"   -> {"NONAUTH"}
      [] cmd = "SELECT"  -> {"AUTH", "SELECTED"}
      [] cmd = "APPEND"  -> {"AUTH", "SELECTED"}
      [] cmd = "LOGOUT"  -> {"NONAUTH", "AUTH", "SELECTED", "LOGOUT"}
      [] OTHER           -> {"SELECTED"}   \* SEARCH FETCH STORE EXPUNGE CLOSE

\* the tagged answers a server gives to a command (RFC 3501); ABORT stands for
\* a connection that breaks before the answer
ServerAnswers(cmd) ==
    CASE cmd \in {"CLOSE", "LOGOUT"}           -> {"OK", "ABORT"}
      [] cmd \in {"LOGIN", "SEARCH", "EXPUNGE"} -> {"OK", "NO", "ABORT"}
      [] OTHER                                  -> {"OK", "NO", "BAD", "ABORT"}

\* the possible results of calling cmd on session s:
\*  ILLEGAL  imaplib refuses the command in this client state (raises, sends nothing)
\*  DEAD     the connection is gone (raises, sends nothing)
\*  OK, NO   the server's tagged answer, returned to the caller
\*  BAD      the server's tagged answer, raised as IMAP4.error by imaplib
\*  ABORT    the connection breaks during the command, raised as IMAP4.abort
ResultsFor(s, cmd) ==
    IF state[s] \notin Commands(cmd) THEN {"ILLEGAL"}
    ELSE IF ~alive[s] THEN {"DEAD"}
    ELSE ServerAnswers(cmd)

Sent(r) == r \in {"OK", "NO", "BAD", "ABORT"}
Raises(r) == r \in {"ILLEGAL", "DEAD", "BAD", "ABORT"}
AliveAfter(s, r) == IF r = "ABORT" THEN [alive EXCEPT ![s] = FALSE] ELSE alive

RECURSIVE SortedSeq(_)
SortedSeq(S) ==
    IF S = {} THEN <<>>
    ELSE LET m == CHOOSE x \in S : \A y \in S : x <= y
         IN <<m>> \o SortedSeq(S \ {m})

Count(seq, c) == Cardinality({i \in DOMAIN seq : seq[i] = c})

\* ------------------------------------------------------------ cleanup frames
\* a guard that only skips sessions that never selected a folder
NeedsTeardown_NotFresh(st) == st \notin {"NONAUTH", "AUTH"}

\* cleanup(): the test on the session state that guards a session's teardown
NeedsTeardown(st) == st = "SELECTED"

NewFrame(kind, st, q) ==
    [kind |-> kind, at |-> "src_check",
     sel0 |-> {s \in Sessions : st[s] = "SELECTED"},
     sent |-> [s \in Sessions |-> <<>>],
     nested |-> FALSE, quiet0 |-> q]

NoCall == [valid |-> FALSE, completed |-> TRUE, illegal |-> FALSE,
           nested |-> FALSE, quiet0 |-> FALSE, exact |-> TRUE, silent |-> TRUE]

Teardown == <<"expunge", "close", "logout">>

\* the record of an invocation that ended: whether it returned, whether a
\* command refused by imaplib ended it, whether it sent exactly one teardown
\* sequence to each session that was SELECTED when it began, whether it sent
\* nothing
Ended(f, completed, why) ==
    [valid |-> TRUE, completed |-> completed, illegal |-> (why = "ILLEGAL"),
     nested |-> f.nested, quiet0 |-> f.quiet0,
     exact |-> \A s \in Sessions :
                 f.sent[s] = IF s \in f.sel0 THEN Teardown ELSE <<>>,
     silent |-> \A s \in Sessions : f.sent[s] = <<>>]

Top == stack[Len(stack)]

\* the detailed pass of the loop body is not followed
BodyOff ==
    /\ fpc = "off"
    /\ data = <<>> /\ zoneinfo = <<>>
    /\ message = <<>> /\ flag_str = <<>> /\ date = <<>>
    /\ wire = <<>> /\ tgtCopy = <<>>

Init ==
    /\ pc = "register"
    /\ installed = FALSE
    /\ state = [s \in Sessions |-> "UNDEF"]
    /\ alive = [s \in Sessions |-> FALSE]
    /\ srvSel = [s \in Sessions |-> "none"]
    /\ \E n \in 0..MaxMsgs : srcBox = 1..n
    /\ srcDel \in SUBSET srcBox
    /\ tgtBox = {} /\ tgtDel = {}
    /\ \E k \in {0, MaxTrash} : trashBox = 1..k
    /\ trashDel = {}
    /\ ids = <<>> /\ idx = 0 /\ rec = NoRec /\ appendResult = "none"
    /\ count = 0 /\ reported = NoReport
    /\ exitCode = -1
    /\ stack = <<>>
    /\ sigCount = 0
    /\ initBox = srcBox
    /\ fetchRes = [m \in srcBox |-> "none"]
    /\ appendRes = [m \in srcBox |-> "none"]
    /\ storeIssued = {}
    /\ everSelected = {}
    /\ td = [s \in Sessions |-> <<>>]
    /\ lastCall = NoCall
    /\ quiet = FALSE
    /\ sigDelivered = FALSE
    /\ cmdAfterSig = FALSE
    /\ abortedAt = "none"
    /\ refused = {}
    /\ purged = "none"
    /\ BodyOff

\* ------------------------------------------------------------ the script
\* an exception leaves the module-level code: the interpreter exits with
\* status 1 and runs the atexit hook
MainRaise(where) ==
    /\ pc' = "exiting"
    /\ exitCode' = 1
    /\ abortedAt' = where
    /\ stack' = <<NewFrame("atexit", state, FALSE)>>

\* a statement of the module-level code runs only while no handler is running
MainStep ==
    /\ stack = <<>>
    /\ UNCHANGED <<sigCount, initBox, td, lastCall, sigDelivered>>
    /\ UNCHANGED bodyVars

Script == MainStep /\ quiet' = FALSE

\* a script that opens the connections without registering the handlers
Register_Late ==
    /\ pc = "register" /\ Script
    /\ installed' = installed
    /\ pc' = "connect_src"
    /\ UNCHANGED <<state, alive, srvSel, srvVars, loopVars, exitCode, stack,
                   histVars, everSelected, refused, cmdAfterSig, purged, abortedAt>>

\* lines 227-228
Register ==
    /\ pc = "register" /\ Script
    /\ installed' = TRUE
    /\ pc' = "connect_src"
    /\ UNCHANGED <<state, alive, srvSel, srvVars, loopVars, exitCode, stack,
                   histVars, everSelected, refused, cmdAfterSig, purged, abortedAt>>

\* lines 231-234 (s = "src") and 247-250 (s = "tgt"): imaplib.IMAP4(...)
Connect(s, here, next) ==
    /\ pc = here /\ Script
    /\ \E ok \in BOOLEAN :
        IF ok
        THEN /\ state' = [state EXCEPT ![s] = "NONAUTH"]
             /\ alive' = [alive EXCEPT ![s] = TRUE]
             /\ pc' = next
             /\ UNCHANGED <<exitCode, stack, abortedAt, refused>>
        ELSE /\ UNCHANGED <<state, alive>>
             /\ refused' = refused \cup {here}
             /\ MainRaise(here)
    /\ UNCHANGED <<installed, srvSel, srvVars, loopVars, histVars,
                   everSelected, cmdAfterSig, purged>>

\* lines 236 and 252: login() raises unless the answer is OK
Login(s, here, next) ==
    /\ pc = here /\ Script
    /\ \E r \in ResultsFor(s, "LOGIN") :
        /\ alive' = AliveAfter(s, r)
        /\ IF r = "OK"
           THEN /\ state' = [state EXCEPT ![s] = "AUTH"]
                /\ pc' = next
                /\ UNCHANGED <<exitCode, stack, abortedAt, refused>>
           ELSE /\ UNCHANGED state
                /\ refused' = refused \cup {here}
                /\ MainRaise(here)
    /\ UNCHANGED <<installed, srvSel, srvVars, loopVars, histVars,
                   everSelected, cmdAfterSig, purged>>

ConnectSource == Connect("src", "connect_src", "login_src")
\* a source login followed at once by the select of the source folder
LoginSource_ThenSelect == Login("src", "login_src", "select_src")
LoginSource == Login("src", "login_src", "connect_tgt")
ConnectTarget == Connect("tgt", "connect_tgt", "login_tgt")
LoginTarget == Login("tgt", "login_tgt", "select_src")

\* imaplib select(): OK -> SELECTED; NO -> AUTH, returned; BAD, abort -> raised
\* with the client state unchanged.  A SELECT answered NO leaves no folder
\* selected on the server; one rejected as BAD was not executed.
Select(s, folder, here, next) ==
    /\ pc = here /\ Script
    /\ \E r \in ResultsFor(s, "SELECT") :
        /\ alive' = AliveAfter(s, r)
        /\ refused' = IF r # "OK" /\ folder = "folder"
                      THEN refused \cup {here} ELSE refused
        /\ CASE r = "OK" ->
                  /\ state' = [state EXCEPT ![s] = "SELECTED"]
                  /\ srvSel' = [srvSel EXCEPT ![s] = folder]
                  /\ everSelected' = everSelected \cup {s}
                  /\ pc' = next
                  /\ UNCHANGED <<exitCode, stack, abortedAt>>
             [] r = "NO" ->
                  /\ state' = [state EXCEPT ![s] = "AUTH"]
                  /\ srvSel' = [srvSel EXCEPT ![s] = "none"]
                  /\ pc' = next
                  /\ UNCHANGED <<everSelected, exitCode, stack, abortedAt>>
             [] OTHER ->
                  /\ UNCHANGED <<state, srvSel, everSelected>>
                  /\ MainRaise(here)
    /\ UNCHANGED <<installed, srvVars, loopVars, histVars, cmdAfterSig, purged>>

\* line 261
SelectSource == Select("src", "folder", "select_src", "select_tgt")
\* line 263
SelectTarget == Select("tgt", "folder", "select_tgt", "search")

\* lines 264-267: the snapshot of the identifiers, count = 0, loop entry.
\* A NO answer makes data[0] the error text, whose words are then fetched and
\* rejected by the server: modelled as the exception that follows.
Search ==
    /\ pc = "search" /\ Script
    /\ \E r \in ResultsFor("src", "SEARCH") :
        /\ alive' = AliveAfter("src", r)
        /\ IF r = "OK"
           THEN /\ ids' = SortedSeq(IF srvSel["src"] = "folder" THEN srcBox ELSE trashBox)
                /\ idx' = 1
                /\ count' = 0
                /\ pc' = IF ids' = <<>> THEN "report" ELSE "fetch"
                /\ UNCHANGED <<exitCode, stack, abortedAt>>
           ELSE /\ UNCHANGED <<ids, idx, count>>
                /\ MainRaise("search")
    /\ UNCHANGED <<installed, state, srvSel, srvVars, rec, appendResult, reported,
                   histVars, everSelected, refused, cmdAfterSig, purged>>

\* lines 269-277: fetch and the reading of data[0][1], data[0][0].  A NO answer
\* or an OK answer without data make data[0] a bytes object or None, and the
\* subscripting / ParseFlags raises TypeError.
Fetch ==
    /\ pc = "fetch" /\ Script
    /\ LET num == ids[idx] IN
       \E r \in ResultsFor("src", "FETCH") \cup
                (IF "NO" \in ResultsFor("src", "FETCH") THEN {"NODATA"} ELSE {}) :
        /\ alive' = AliveAfter("src", r)
        /\ fetchRes' = IF r \in {"ILLEGAL", "DEAD"} THEN fetchRes
                       ELSE [fetchRes EXCEPT ![num] = IF r = "OK" THEN "OK" ELSE "FAIL"]
        /\ cmdAfterSig' = (cmdAfterSig \/ (sigDelivered /\ r \notin {"ILLEGAL", "DEAD"}))
        /\ IF r = "OK"
           THEN /\ rec' = [id |-> num, deleted |-> num \in srcDel]
                /\ pc' = "append"
                /\ UNCHANGED <<exitCode, stack, abortedAt>>
           ELSE /\ UNCHANGED rec
                /\ MainRaise("fetch")
    /\ UNCHANGED <<installed, state, srvSel, srvVars, ids, idx, appendResult, count,
                   reported, appendRes, storeIssued, everSelected, refused, purged>>

\* line 279: append with the flags of the record; the copy carries \Deleted
\* when the original did.  When the connection breaks during the command the
\* server may or may not have stored the copy.
AppendMessage ==
    /\ pc = "append" /\ Script
    /\ LET num == ids[idx] IN
       \E r \in ResultsFor("tgt", "APPEND"), stored \in BOOLEAN :
        /\ stored = TRUE \/ r = "ABORT"
        /\ alive' = AliveAfter("tgt", r)
        /\ appendRes' = IF Sent(r) THEN [appendRes EXCEPT ![num] = r] ELSE appendRes
        /\ cmdAfterSig' = (cmdAfterSig \/ (sigDelivered /\ Sent(r)))
        /\ IF r = "OK" \/ (r = "ABORT" /\ stored)
           THEN /\ tgtBox' = tgtBox \cup {num}
                /\ tgtDel' = IF rec.deleted THEN tgtDel \cup {num} ELSE tgtDel
           ELSE UNCHANGED <<tgtBox, tgtDel>>
        /\ IF Raises(r)
           THEN /\ UNCHANGED appendResult
                /\ MainRaise("append")
           ELSE /\ appendResult' = r
                /\ pc' = "check"
                /\ UNCHANGED <<exitCode, stack, abortedAt>>
    /\ UNCHANGED <<installed, state, srvSel, srcBox, srcDel, trashBox, trashDel,
                   ids, idx, rec, count, reported, fetchRes, storeIssued, everSelected,
                   refused, purged>>

\* a test that also lets a NO answer through
IsOK_AnyAnswer(result) == result \in {"OK", "NO"}

\* line 281: the test on append_result
IsOK(result) == result = "OK"

\* a tally incremented before the test
CountAfter_Always(c, result) == c + 1

\* line 282: the tally after the test
CountAfter(c, result) == IF IsOK(result) THEN c + 1 ELSE c

\* a loop that does not move to the next identifier
Advance_Stay ==
    /\ idx' = idx
    /\ pc' = IF idx < Len(ids) THEN "fetch" ELSE "report"

\* the loop goes to the next identifier, or ends (line 267)
Advance ==
    /\ idx' = idx + 1
    /\ pc' = IF idx < Len(ids) THEN "fetch" ELSE "report"

\* lines 281-282
Check ==
    /\ pc = "check" /\ Script
    /\ count' = CountAfter(count, appendResult)
    /\ IF IsOK(appendResult)
       THEN pc' = "store" /\ UNCHANGED idx
       ELSE Advance
    /\ UNCHANGED <<installed, state, alive, srvSel, srvVars, ids, rec, appendResult,
                   reported, exitCode, stack, histVars, everSelected, refused, cmdAfterSig, purged,
                   abortedAt>>

\* line 283: store(num, '+FLAGS', '\\Deleted'); the result is not looked at
Store ==
    /\ pc = "store" /\ Script
    /\ LET num == ids[idx] IN
       \E r \in ResultsFor("src", "STORE") :
        /\ alive' = AliveAfter("src", r)
        /\ storeIssued' = IF Sent(r) /\ srvSel["src"] = "folder"
                          THEN storeIssued \cup {num} ELSE storeIssued
        /\ cmdAfterSig' = (cmdAfterSig \/ (sigDelivered /\ Sent(r)))
        /\ IF r = "OK" /\ srvSel["src"] = "folder"
           THEN srcDel' = srcDel \cup ({num} \cap srcBox)
           ELSE UNCHANGED srcDel
        /\ IF Raises(r)
           THEN /\ UNCHANGED <<idx>>
                /\ MainRaise("store")
           ELSE /\ Advance
                /\ UNCHANGED <<exitCode, stack, abortedAt>>
    /\ UNCHANGED <<installed, state, srvSel, srcBox, tgtBox, tgtDel, trashBox, trashDel,
                   ids, rec, appendResult, count, reported, fetchRes, appendRes,
                   everSelected, refused, purged>>

\* line 285
Report ==
    /\ pc = "report" /\ Script
    /\ reported' = count
    /\ pc' = "select_trash"
    /\ UNCHANGED <<installed, state, alive, srvSel, srvVars, ids, idx, rec,
                   appendResult, count, exitCode, stack, histVars, everSelected, refused,
                   cmdAfterSig, purged, abortedAt>>

\* line 286
SelectTrash == Select("src", "trash", "select_trash", "store_trash")

\* a range that follows the number of messages moved
PurgeRange_Moved(box, moved) == {m \in box : m <= moved}

\* line 287: the messages "1:*" designates in a folder: all of them, whatever
\* the number of messages moved by the loop
PurgeRange(box, moved) == box

\* line 287: store("1:*", '+FLAGS', '\\Deleted') marks every message of the
\* folder selected on the source
StoreTrash ==
    /\ pc = "store_trash" /\ Script
    /\ \E r \in ResultsFor("src", "STORE") :
        /\ alive' = AliveAfter("src", r)
        /\ storeIssued' = IF Sent(r) /\ srvSel["src"] = "folder"
                          THEN storeIssued \cup srcBox ELSE storeIssued
        /\ purged' = IF Sent(r) /\ srvSel["src"] = "folder" THEN "folder"
                      ELSE IF r = "OK" THEN "trash" ELSE "refused"
        /\ IF r = "OK" /\ srvSel["src"] = "folder"
           THEN srcDel' = srcDel \cup PurgeRange(srcBox, count) ELSE UNCHANGED srcDel
        /\ IF r = "OK" /\ srvSel["src"] = "trash"
           THEN trashDel' = trashDel \cup PurgeRange(trashBox, count)
           ELSE UNCHANGED trashDel
        /\ IF Raises(r)
           THEN MainRaise("store_trash")
           ELSE /\ pc' = "exit"
                /\ UNCHANGED <<exitCode, stack, abortedAt>>
    /\ UNCHANGED <<installed, state, srvSel, srcBox, tgtBox, tgtDel, trashBox,
                   loopVars, fetchRes, appendRes, everSelected, refused, cmdAfterSig>>

\* line 288: sys.exit(0) runs the atexit hook
Exit ==
    /\ pc = "exit" /\ MainStep
    /\ pc' = "exiting"
    /\ exitCode' = 0
    /\ stack' = <<NewFrame("atexit", state, quiet)>>
    /\ UNCHANGED quiet
    /\ UNCHANGED <<installed, state, alive, srvSel, srvVars, loopVars, histVars,
                   everSelected, refused, cmdAfterSig, purged, abortedAt>>

\* ------------------------------------------------------------ cleanup()
SetTop(f) == [stack EXCEPT ![Len(stack)] = f]

\* cleanup() returns: the interrupted code resumes; the atexit hook ends the process
Return(f) ==
    /\ lastCall' = Ended(f, TRUE, "none")
    /\ quiet' = TRUE
    /\ stack' = SubSeq(stack, 1, Len(stack) - 1)
    /\ pc' = IF f.kind = "atexit" THEN "done" ELSE pc
    /\ UNCHANGED <<exitCode, abortedAt>>

\* cleanup() has no try/except: an exception leaves it and every invocation it
\* interrupted.  Raised inside the atexit hook it is printed and dropped, the
\* process ends; raised inside signal_handler it reaches the module-level
\* code, which ends with status 1 and runs the atexit hook.
Unwind(f, why, st) ==
    /\ lastCall' = Ended(f, FALSE, why)
    /\ quiet' = FALSE
    /\ IF stack[1].kind = "atexit"
       THEN /\ stack' = <<>>
            /\ pc' = "done"
            /\ UNCHANGED <<exitCode, abortedAt>>
       ELSE /\ stack' = <<NewFrame("atexit", st, FALSE)>>
            /\ pc' = "exiting"
            /\ exitCode' = 1
            /\ abortedAt' = "signal"

\* the frame after a teardown command with result r on session s
Issued(f, s, cmd, r) ==
    IF Sent(r) THEN [f EXCEPT !.sent[s] = Append(@, cmd)] ELSE f

\* EXPUNGE (and CLOSE) remove the messages carrying \Deleted from the folder
\* selected on the server
ExpungeEffect(s) ==
    CASE s = "src" /\ srvSel[s] = "folder" ->
            /\ srcBox' = srcBox \ srcDel /\ srcDel' = {}
            /\ UNCHANGED <<tgtBox, tgtDel, trashBox, trashDel>>
      [] s = "src" /\ srvSel[s] = "trash" ->
            /\ trashBox' = trashBox \ trashDel /\ trashDel' = {}
            /\ UNCHANGED <<srcBox, srcDel, tgtBox, tgtDel>>
      [] s = "tgt" /\ srvSel[s] = "folder" ->
            /\ tgtBox' = tgtBox \ tgtDel /\ tgtDel' = {}
            /\ UNCHANGED <<srcBox, srcDel, trashBox, trashDel>>
      [] OTHER -> UNCHANGED srvVars

CleanupStep ==
    /\ stack # <<>>
    /\ UNCHANGED <<installed, loopVars, sigCount, initBox, histVars, everSelected, refused,
                   sigDelivered, cmdAfterSig, purged>>
    /\ UNCHANGED bodyVars

\* lines 167-170 (s = "src"), 175-178 (s = "tgt")
CleanupCheck(s) ==
    /\ CleanupStep
    /\ Top.at = s \o "_check"
    /\ IF state[s] # "UNDEF" /\ NeedsTeardown(state[s])
       THEN /\ stack' = SetTop([Top EXCEPT !.at = s \o "_expunge"])
            /\ UNCHANGED <<pc, exitCode, abortedAt, lastCall, quiet>>
       ELSE IF s = "src"
       THEN /\ stack' = SetTop([Top EXCEPT !.at = "tgt_check"])
            /\ UNCHANGED <<pc, exitCode, abortedAt, lastCall, quiet>>
       ELSE Return(Top)
    /\ UNCHANGED <<state, alive, srvSel, srvVars, td>>

\* lines 172, 180
CleanupExpunge(s) ==
    /\ CleanupStep
    /\ Top.at = s \o "_expunge"
    /\ \E r \in ResultsFor(s, "EXPUNGE") :
        /\ alive' = AliveAfter(s, r)
        /\ td' = IF Sent(r) THEN [td EXCEPT ![s] = Append(@, "expunge")] ELSE td
        /\ IF r = "OK" THEN ExpungeEffect(s) ELSE UNCHANGED srvVars
        /\ IF Raises(r)
           THEN Unwind(Issued(Top, s, "expunge", r), r, state)
           ELSE /\ stack' = SetTop([Issued(Top, s, "expunge", r) EXCEPT !.at = s \o "_close"])
                /\ UNCHANGED <<pc, exitCode, abortedAt, lastCall, quiet>>
    /\ UNCHANGED <<state, srvSel>>

\* lines 173, 181: imaplib close() sets the state to AUTH whatever happens
CleanupClose(s) ==
    /\ CleanupStep
    /\ Top.at = s \o "_close"
    /\ \E r \in ResultsFor(s, "CLOSE") :
        /\ alive' = AliveAfter(s, r)
        /\ state' = [state EXCEPT ![s] = "AUTH"]
        /\ td' = IF Sent(r) THEN [td EXCEPT ![s] = Append(@, "close")] ELSE td
        /\ IF r = "OK"
           THEN ExpungeEffect(s) /\ srvSel' = [srvSel EXCEPT ![s] = "none"]
           ELSE UNCHANGED <<srvVars, srvSel>>
        /\ IF Raises(r)
           THEN Unwind(Issued(Top, s, "close", r), r, state')
           ELSE /\ stack' = SetTop([Issued(Top, s, "close", r) EXCEPT !.at = s \o "_logout"])
                /\ UNCHANGED <<pc, exitCode, abortedAt, lastCall, quiet>>

\* lines 174, 182: imaplib logout() sets the state to LOGOUT, sends LOGOUT and
\* shuts the socket down when the command returned
CleanupLogout(s) ==
    /\ CleanupStep
    /\ Top.at = s \o "_logout"
    /\ \E r \in ResultsFor(s, "LOGOUT") :
        /\ state' = [state EXCEPT ![s] = "LOGOUT"]
        /\ alive' = IF Raises(r) THEN AliveAfter(s, r) ELSE [alive EXCEPT ![s] = FALSE]
        /\ srvSel' = IF Raises(r) THEN srvSel ELSE [srvSel EXCEPT ![s] = "none"]
        /\ td' = IF Sent(r) THEN [td EXCEPT ![s] = Append(@, "logout")] ELSE td
        /\ IF Raises(r)
           THEN Unwind(Issued(Top, s, "logout", r), r, state')
           ELSE IF s = "src"
           THEN /\ stack' = SetTop([Issued(Top, s, "logout", r) EXCEPT !.at = "tgt_check"])
                /\ UNCHANGED <<pc, exitCode, abortedAt, lastCall, quiet>>
           ELSE Return(Issued(Top, s, "logout", r))
    /\ UNCHANGED srvVars

\* lines 186-192 and 228: SIGINT runs signal_handler, hence cleanup(), on top
\* of whatever is running.  Before line 228 the default handler raises
\* KeyboardInterrupt and the process ends with no hook registered.
Sigint ==
    /\ pc # "done"
    /\ sigCount < MaxSigint
    /\ sigCount' = sigCount + 1
    /\ IF installed
       THEN /\ stack' = Append(IF stack = <<>> THEN stack
                               ELSE SetTop([Top EXCEPT !.nested = TRUE]),
                               NewFrame("signal", state, quiet))
            /\ sigDelivered' = TRUE
            /\ UNCHANGED <<pc, exitCode>>
       ELSE /\ pc' = "done"
            /\ exitCode' = 1
            /\ UNCHANGED <<stack, sigDelivered>>
    /\ UNCHANGED <<installed, state, alive, srvSel, srvVars, loopVars, initBox,
                   histVars, everSelected, refused, td, lastCall, quiet, cmdAfterSig, purged, abortedAt>>
    /\ UNCHANGED bodyVars

Next ==
    \/ Register
    \/ ConnectSource
    \/ LoginSource
    \/ ConnectTarget
    \/ LoginTarget
    \/ SelectSource
    \/ SelectTarget
    \/ Search
    \/ Fetch
    \/ AppendMessage
    \/ Check
    \/ Store
    \/ Report
    \/ SelectTrash
    \/ StoreTrash
    \/ Exit
    \/ \E s \in Sessions : CleanupCheck(s)
    \/ \E s \in Sessions : CleanupExpunge(s)
    \/ \E s \in Sessions : CleanupClose(s)
    \/ \E s \in Sessions : CleanupLogout(s)
    \/ Sigint

Spec == Init /\ [][Next]_vars

\* ------------------------------------------------------------ a second run
\* the servers as a first run leaves them when every command of it was
\* answered OK and no SIGINT came: each of the n messages was appended to the
\* target and delete-marked on the source (line 283), the trash was selected
\* and marked (lines 286-287) and cleanup() expunged the folder selected on
\* each session: the trash on the source, the working folder on the target
AfterCleanRun ==
    /\ srcDel = srcBox
    /\ tgtBox = srcBox /\ tgtDel = {}
    /\ trashBox = {} /\ trashDel = {}

\* the script started again on those servers, no mail having arrived
InitRerun ==
    /\ pc = "register"
    /\ installed = FALSE
    /\ state = [s \in Sessions |-> "UNDEF"]
    /\ alive = [s \in Sessions |-> FALSE]
    /\ srvSel = [s \in Sessions |-> "none"]
    /\ \E n \in 0..MaxMsgs : srcBox = 1..n
    /\ AfterCleanRun
    /\ ids = <<>> /\ idx = 0 /\ rec = NoRec /\ appendResult = "none"
    /\ count = 0 /\ reported = NoReport
    /\ exitCode = -1
    /\ stack = <<>>
    /\ sigCount = 0
    /\ initBox = srcBox
    /\ fetchRes = [m \in srcBox |-> "none"]
    /\ appendRes = [m \in srcBox |-> "none"]
    /\ storeIssued = {}
    /\ everSelected = {}
    /\ td = [s \in Sessions |-> <<>>]
    /\ lastCall = NoCall
    /\ quiet = FALSE
    /\ sigDelivered = FALSE
    /\ cmdAfterSig = FALSE
    /\ abortedAt = "none"
    /\ refused = {}
    /\ purged = "none"
    /\ BodyOff

SpecRerun == InitRerun /\ [][Next]_vars

\* ------------------------------------------------------------ the loop body
\* One pass of the loop body (lines 268-279) on one message, with the text of
\* the FETCH response, the two date conversions of imaplib and the APPEND
\* command it builds.  Time is counted in hours: an INTERNALDATE is a wall
\* clock reading and the offset of its zone from UTC.
Flags == {"\\Seen", "\\Flagged", "\\Answered"}

\* the flag lists a server can send: each flag at most once, in any order
FlagLists == {fl \in UNION {[1..n -> Flags] : n \in 0..Cardinality(Flags)} :
                \A i, j \in DOMAIN fl : fl[i] = fl[j] => i = j}

\* bytes.split() / str.split(): the words of a text, a text being a sequence
\* of words and blanks
RECURSIVE Split(_)
Split(text) ==
    IF text = <<>> THEN <<>>
    ELSE IF Head(text) = " " THEN Split(Tail(text))
    ELSE <<Head(text)>> \o Split(Tail(text))

\* ' '.join(flags)
RECURSIVE Join(_)
Join(words) ==
    IF Len(words) <= 1 THEN words
    ELSE <<Head(words), " ">> \o Join(Tail(words))

\* imaplib.ParseFlags: the words between the parentheses of FLAGS (...)
ParseFlags(header) == Split(header.flags)

\* the zone offset time.localtime gives to an instant: the zone's standard
\* offset, one hour more while summer time applies (the instants after 0)
LocalOffset(zi, utc) == IF zi.dst /\ utc > 0 THEN zi.std + 1 ELSE zi.std

\* a conversion that reads the wall clock as UTC, dropping the zone
Internaldate2tuple_NoZone(header, zi) ==
    IF header.date = <<>> THEN <<>>
    ELSE LET utc == header.date[1].wall
         IN <<[wall |-> utc + LocalOffset(zi, utc),
               tm_gmtoff |-> LocalOffset(zi, utc)]>>

\* imaplib.Internaldate2tuple: None (<<>>) without an INTERNALDATE item, else
\* time.localtime(calendar.timegm(tt) - zone)
Internaldate2tuple(header, zi) ==
    IF header.date = <<>> THEN <<>>
    ELSE LET utc == header.date[1].wall - header.date[1].zone
         IN <<[wall |-> utc + LocalOffset(zi, utc),
               tm_gmtoff |-> LocalOffset(zi, utc)]>>

\* imaplib.Time2Internaldate of a struct_time: its fields, in the zone of its
\* tm_gmtoff
Time2Internaldate(tt) == [wall |-> tt.wall, zone |-> tt.tm_gmtoff]

\* imaplib.append: MapCRLF.sub(CRLF, message), every CR LF, lone CR and lone
\* LF becomes CR LF
RECURSIVE MapCRLF(_)
MapCRLF(b) ==
    IF b = <<>> THEN <<>>
    ELSE IF Len(b) >= 2 /\ b[1] = "CR" /\ b[2] = "LF"
         THEN <<"CR", "LF">> \o MapCRLF(Tail(Tail(b)))
    ELSE IF Head(b) \in {"CR", "LF"} THEN <<"CR", "LF">> \o MapCRLF(Tail(b))
    ELSE <<Head(b)>> \o MapCRLF(Tail(b))

\* imaplib.append: flags are sent between parentheses, or not at all when the
\* string is empty
AppendFlags(fs) == IF fs = <<>> THEN <<>> ELSE <<"(">> \o fs \o <<")">>

\* the target reading the flag list of an APPEND
ServerFlags(w) == {x \in {w[i] : i \in DOMAIN w} : x \notin {"(", ")", " "}}

\* the instant an INTERNALDATE names
Instant(d) == d.wall - d.zone

Bodies == UNION {[1..n -> {"a", "CR", "LF"}] : n \in 0..MaxBody}

InitFidelity ==
    /\ fpc = "fetch"
    /\ \E fl \in FlagLists, b \in Bodies :
       \E d \in {<<>>} \cup {<<[wall |-> w, zone |-> z]>> :
                              w \in 0..MaxWall, z \in (0 - MaxZone)..MaxZone} :
          data = [header |-> [flags |-> Join(fl), date |-> d], literal |-> b]
    /\ zoneinfo \in [std : (0 - MaxZone)..MaxZone, dst : BOOLEAN]
    /\ message = <<>> /\ flag_str = <<>> /\ date = <<>>
    /\ wire = <<>> /\ tgtCopy = <<>>
    \* the rest of the run is held still
    /\ pc = "fetch"
    /\ installed = TRUE
    /\ state = [s \in Sessions |-> "SELECTED"]
    /\ alive = [s \in Sessions |-> TRUE]
    /\ srvSel = [s \in Sessions |-> "folder"]
    /\ srcBox = {1} /\ srcDel = {}
    /\ tgtBox = {} /\ tgtDel = {}
    /\ trashBox = {} /\ trashDel = {}
    /\ ids = <<1>> /\ idx = 1 /\ rec = NoRec /\ appendResult = "none"
    /\ count = 0 /\ reported = NoReport
    /\ exitCode = -1
    /\ stack = <<>>
    /\ sigCount = 0
    /\ initBox = srcBox
    /\ fetchRes = [m \in srcBox |-> "none"]
    /\ appendRes = [m \in srcBox |-> "none"]
    /\ storeIssued = {}
    /\ everSelected = Sessions
    /\ td = [s \in Sessions |-> <<>>]
    /\ lastCall = NoCall
    /\ quiet = FALSE
    /\ sigDelivered = FALSE
    /\ cmdAfterSig = FALSE
    /\ abortedAt = "none"
    /\ refused = {}
    /\ purged = "none"

BodyStep ==
    UNCHANGED <<pc, installed, state, alive, srvSel, srvVars, loopVars, exitCode,
                stack, sigCount, initBox, histVars, everSelected, td, lastCall,
                quiet, sigDelivered, cmdAfterSig, abortedAt, refused, purged,
                data, zoneinfo>>

\* line 270: message = data[0][1]
TakeMessage ==
    /\ fpc = "fetch" /\ BodyStep
    /\ message' = data.literal
    /\ fpc' = "flags"
    /\ UNCHANGED <<flag_str, date, wire, tgtCopy>>

\* lines 272-275: flag_str = ' '.join(the decoded flags of ParseFlags(data[0][0]))
JoinFlags ==
    /\ fpc = "flags" /\ BodyStep
    /\ flag_str' = Join(ParseFlags(data.header))
    /\ fpc' = "date"
    /\ UNCHANGED <<message, date, wire, tgtCopy>>

\* line 277: date = Time2Internaldate(Internaldate2tuple(data[0][0])); on None
\* Time2Internaldate raises ValueError and the pass ends without an append
Reconstruct ==
    /\ fpc = "date" /\ BodyStep
    /\ LET tt == Internaldate2tuple(data.header, zoneinfo)
       IN IF tt = <<>>
          THEN /\ fpc' = "raised"
               /\ UNCHANGED date
          ELSE /\ date' = <<Time2Internaldate(tt[1])>>
               /\ fpc' = "append"
    /\ UNCHANGED <<message, flag_str, wire, tgtCopy>>

\* line 279: target_mailbox.append(folder, flag_str, date, message); the date
\* is a quoted string and is sent as it is; on OK the target holds the
\* message with the flags, the instant and the literal of the command
AppendCall ==
    /\ fpc = "append" /\ BodyStep
    /\ wire' = <<[flags |-> AppendFlags(flag_str), date |-> date[1],
                  literal |-> MapCRLF(message)]>>
    /\ \E r \in {"OK", "NO"} :
         /\ fpc' = IF r = "OK" THEN "stored" ELSE "refused"
         /\ tgtCopy' = IF r = "OK"
                       THEN <<[flags |-> ServerFlags(wire'[1].flags),
                               instant |-> Instant(wire'[1].date),
                               literal |-> wire'[1].literal]>>
                       ELSE <<>>
    /\ UNCHANGED <<message, flag_str, date>>

NextFidelity ==
    \/ TakeMessage
    \/ JoinFlags
    \/ Reconstruct
    \/ AppendCall

SpecFidelity == InitFidelity /\ [][NextFidelity]_vars

\* ------------------------------------------------------------ properties
OkAppended == {m \in DOMAIN appendRes : appendRes[m] = "OK"}

\* the identifier the loop is at
Current == IF idx \in DOMAIN ids THEN ids[idx] ELSE 0

\* C1: a STORE +FLAGS \Deleted is sent for an identifier of the working folder
\* only after the APPEND of that identifier returned OK in this run.
C1_Ordering == storeIssued \subseteq OkAppended

\* one identifier was delete-marked after its OK append while another, whose
\* append was answered NO, was left unmarked
C1_Witness ==
    /\ storeIssued # {}
    /\ \E m \in DOMAIN appendRes : appendRes[m] = "NO" /\ m \notin storeIssued

\* C2: every message that was in the source working folder when the run
\* started is still in the source working folder or in the target working
\* folder, in every state of the run.
C2_NoLoss == \A m \in initBox : m \in srcBox \/ m \in tgtBox

\* C3: the reported tally is the number of identifiers whose append returned
\* OK, and the counter never runs ahead of that number.
C3_TallyAccuracy ==
    /\ reported # NoReport => reported = Cardinality(OkAppended)
    /\ count <= Cardinality(OkAppended)

\* a tally was reported after one append answered OK and another answered NO
C3_Witness ==
    /\ reported = 1
    /\ \E m \in DOMAIN appendRes : appendRes[m] = "NO"

\* C4: an identifier whose fetch failed is not appended, not delete-marked,
\* and its failure does not end the run.
C4_SkipOnFetchFailure ==
    \A x \in DOMAIN fetchRes :
        fetchRes[x] = "FAIL" =>
            /\ appendRes[x] = "none"
            /\ x \notin storeIssued
            /\ ~(abortedAt = "fetch" /\ Current = x)

\* C5: an identifier whose append was answered NO or BAD is not delete-marked
\* and its failure does not end the run.
C5_AppendFailureContinues ==
    \A x \in DOMAIN appendRes :
        appendRes[x] \in {"NO", "BAD"} =>
            /\ x \notin storeIssued
            /\ ~(abortedAt = "append" /\ Current = x)

\* C6: when the process is done, every session that reached SELECTED during
\* the run has received exactly one expunge, close, logout sequence.
C6_TeardownOnEveryExit ==
    pc = "done" => \A s \in everSelected : td[s] = Teardown

\* C7: an invocation of cleanup() that runs to completion without being
\* interrupted sends exactly one expunge, close, logout to each session that
\* was SELECTED when it began; an invocation that begins after another one
\* returned, the script not having run in between, returns and sends nothing.
C7_IdempotentSequential ==
    lastCall.valid =>
        /\ (lastCall.completed /\ ~lastCall.nested) => lastCall.exact
        /\ lastCall.quiet0 => (lastCall.completed /\ lastCall.silent)

\* a second invocation has returned without a command after a first one tore
\* down both sessions
C7_Witness ==
    /\ lastCall.valid /\ lastCall.quiet0 /\ lastCall.completed
    /\ \A s \in Sessions : td[s] = Teardown

\* C8: whatever the interleaving of cleanup() invocations, a session receives
\* at most one expunge, one close and one logout, and no invocation ends with
\* an exception for a command that the session state forbids.
C8_ReentrantTeardown ==
    /\ \A s \in Sessions : \A c \in {"expunge", "close", "logout"} : Count(td[s], c) <= 1
    /\ lastCall.valid => ~lastCall.illegal

\* C9: no invocation of cleanup() ends with an exception.
C9_CleanupNeverRaises == lastCall.valid => lastCall.completed

\* C10: no FETCH, APPEND or STORE is sent once a SIGINT has been delivered.
C10_InterruptAborts == ~cmdAfterSig

\* the transfer commands of the run: the search returned, or a FETCH, an
\* APPEND or a delete-mark of the working folder was sent
TransferBegun ==
    \/ pc \in {"fetch", "append", "check", "store", "report", "select_trash",
               "store_trash", "exit"}
    \/ reported # NoReport
    \/ \E m \in DOMAIN fetchRes : fetchRes[m] # "none"
    \/ \E m \in DOMAIN appendRes : appendRes[m] # "none"
    \/ storeIssued # {}

\* C11: when a connect, a login or the select of a working folder was
\* rejected, no transfer command is issued in the run and the process ends
\* with a non-zero status.
C11_StartupFaultsFatal ==
    refused # {} =>
        /\ ~TransferBegun
        /\ pc = "done" => exitCode # 0

\* C12: a failure of the trash select or of the trash delete-mark does not keep
\* the run from ending with status zero and with the source session torn down.
C12_PurgeFaultsAbsorbed ==
    (pc = "done" /\ abortedAt \in {"select_trash", "store_trash"}) =>
        /\ exitCode = 0
        /\ td["src"] = Teardown

\* a run that ended normally: loop finished, trash purged, status zero, both
\* sessions torn down, no interruption
NormalCompletion ==
    /\ pc = "done" /\ exitCode = 0 /\ ~sigDelivered
    /\ purged = "trash"
    /\ \A s \in Sessions : td[s] = Teardown

\* C13: in a second run started on the servers a first clean run left, with
\* no new mail, the search finds no message that the first run transferred,
\* no message is appended again and the tally reported is zero.
C13_RerunMovesNothing ==
    /\ \A i \in DOMAIN ids : ids[i] \notin tgtBox
    /\ OkAppended = {}
    /\ reported \in {NoReport, 0}

\* C14: after a run that completed normally, no message whose append returned
\* OK is left in the source working folder.
C14_MoveSemantics == NormalCompletion => OkAppended \cap srcBox = {}

\* C15 as stated: in every run whose loop finished, all messages of the trash
\* folder end up delete-marked.
C15_PurgeAlways ==
    (pc = "done" /\ reported # NoReport) => trashBox \subseteq trashDel

\* C15 amended: when the STORE "1:*" of the purge is answered OK, every message
\* of the trash folder is delete-marked, whatever the number of messages moved
\* or failed; the purge never sends a delete-mark to the working folder.
C15_PurgeIndependence ==
    /\ purged # "folder"
    /\ purged = "trash" => trashBox \subseteq trashDel

\* the trash messages were all marked in a run that moved one message and
\* failed another
C15_Witness ==
    /\ purged = "trash" /\ trashBox # {} /\ trashDel = trashBox
    /\ reported = 1
    /\ \E m \in DOMAIN appendRes : appendRes[m] = "NO"

\* a literal whose line ends are all CR LF, as RFC 3501 prescribes
Canonical(b) ==
    \A i \in DOMAIN b :
        /\ b[i] = "CR" => (i < Len(b) /\ b[i + 1] = "LF")
        /\ b[i] = "LF" => (i > 1 /\ b[i - 1] = "CR")

C17_GuardFirst == (\E s \in Sessions : state[s] # "UNDEF") => installed

\* the source connection was just opened, with the handlers registered
C17_Witness == installed /\ state["src"] = "NONAUTH" /\ state["tgt"] = "UNDEF"

\* C18: inside the loop the snapshot is the sorted content of the folder at
\* the search, the identifiers before the loop position are completely
\* processed, those after it are untouched, and the commands of the current
\* identifier are sent once each, in the order fetch, append, delete-mark.
C18_SequentialInOrder ==
    pc \in {"fetch", "append", "check", "store"} =>
        /\ idx \in DOMAIN ids
        /\ ids = SortedSeq(DOMAIN fetchRes)
        /\ \A j \in DOMAIN ids :
            /\ j < idx =>
                /\ fetchRes[ids[j]] = "OK"
                /\ appendRes[ids[j]] \in {"OK", "NO"}
                /\ ids[j] \in storeIssued <=> appendRes[ids[j]] = "OK"
            /\ j > idx =>
                /\ fetchRes[ids[j]] = "none"
                /\ appendRes[ids[j]] = "none"
                /\ ids[j] \notin storeIssued
        /\ Current \notin storeIssued
        /\ pc = "fetch" => fetchRes[Current] = "none" /\ appendRes[Current] = "none"
        /\ pc = "append" => fetchRes[Current] = "OK" /\ appendRes[Current] = "none"
        /\ pc = "check" => fetchRes[Current] = "OK" /\ appendRes[Current] \in {"OK", "NO"}
        /\ pc = "store" => fetchRes[Current] = "OK" /\ appendRes[Current] = "OK"

\* the second identifier is about to be fetched after the first was fetched,
\* appended and delete-marked
C18_Witness == pc = "fetch" /\ idx = 2 /\ storeIssued = {1}

\* C19 as stated: the source has selected its working folder before the
\* connection to the target is opened.
C19_SourceReadyFirst == state["tgt"] # "UNDEF" => "src" \in everSelected

\* C19 amended: the source is connected and authenticated before the
\* connection to the target is opened, its working folder is selected only
\* after the target has logged in, and a failed target connect or login finds
\* the source authenticated but not selected: teardown sends it nothing.
C19_LoginBeforeTarget ==
    /\ state["tgt"] # "UNDEF" => state["src"] \in {"AUTH", "SELECTED", "LOGOUT"}
    /\ "src" \in everSelected => state["tgt"] \in {"AUTH", "SELECTED", "LOGOUT"}
    /\ abortedAt \in {"connect_tgt", "login_tgt"} =>
            "src" \notin everSelected /\ td["src"] = <<>>

\* the process ended after the target login was rejected, the source still
\* only authenticated
C19_Witness ==
    pc = "done" /\ abortedAt = "login_tgt" /\ state["src"] = "AUTH" /\ td["src"] = <<>>

====
